---- MODULE Spec2Model ----
(***************************************************************************)
(* State-machine model of the regenesis snapshot tool (src/src/main.rs).   *)
(* One run of main: connect, resolve the block hash, decode the exclusion  *)
(* lists, stream every account, reconcile against the chain's issuance,    *)
(* fetch the header and write balances_<number>.json.                      *)
(*                                                                         *)
(* Balances are u128 in the program.  The model keeps the arithmetic of a  *)
(* fixed-width unsigned integer (reduction modulo 2^BalanceBits, or a      *)
(* panic when the build checks overflow) at a small width.                 *)
(***************************************************************************)
EXTENDS Integers, Sequences, FiniteSets, TLC

\* ------------------------------------------------------------------ bounds
\* Width of the modelled Balance type (u128 in the program).
BalanceBits == 2
\* Longest account stream the node serves in one run.
MaxStream == 2
\* Highest block number the chain reaches while the run is in progress.
MaxHeight == 2

\* --------------------------------------------------------------- constants
BLAKE_HASH_LEN == 32
STORAGE_PREFIX_LEN == 64
\* Hex length of a 32-byte AccountId, the length AccountId's FromStr accepts.
ACCOUNT_HEX_LEN == 64

\* Option::None of the optional integers of the model.
NoneVal == 0 - 1

Modulus == 2 ^ BalanceBits
MaxBalance == Modulus - 1

\* ------------------------------------------------------- addresses and ids
\* The hardcoded token-grant list (shortened to two addresses).
TOKEN_GRANTS == << "5Dns1SVE", "5DxtHHQL" >>

SUDO_ADDRESS == "5CXTmJEu"

\* ss58 address <-> 32-byte account id (ids are small integers here).
Ss58Table ==
    [a \in {"5CXTmJEu", "5Alice", "5Bob", "5Dns1SVE", "5DxtHHQL", "5NewB", "5NewC"} |->
        CASE a = "5CXTmJEu" -> 1
          [] a = "5Alice"   -> 2
          [] a = "5Bob"     -> 3
          [] a = "5Dns1SVE" -> 4
          [] a = "5DxtHHQL" -> 5
          [] a = "5NewB"    -> 6
          [] a = "5NewC"    -> 7]

from_ss58check(address) == Ss58Table[address]

to_ss58check(id) == CHOOSE a \in DOMAIN Ss58Table : Ss58Table[a] = id

\* The account ids the node's stream is drawn from: the sudo account, one
\* grant recipient and two ordinary accounts.
StreamIds == {1, 4, 6, 7}

\* Byte lengths of the storage keys the node may return: a well-formed
\* System.Account key (32 + 16 + 32 bytes) and two malformed ones.
KeyLens == {80, 79, 47}

Range(s) == {s[i] : i \in 1..Len(s)}

VARIABLES
    cli_block_number,        \* --block-number, or NoneVal
    cli_block_hash,          \* --block-hash, or NoneVal
    valid_ss58,              \* the grant addresses that from_ss58check accepts
    overflow_checks,         \* build profile: TRUE panics on overflow, FALSE wraps
    best_number,             \* the node's best block number
    fs,                      \* working directory: block number -> file
    pc,                      \* position of main
    error,                   \* the fatal condition that ended the run
    net,                     \* node requests issued so far, in order
    block_hash,              \* the resolved hash, or NoneVal
    token_grants,            \* decoded grant list
    iter_at,                 \* hash the account iterator was opened at
    streamed,                \* entries the iterator has yielded so far
    exhausted,               \* the iterator has returned None
    new_accounts,
    total_issuance,          \* the accumulator
    expected_total_issuance, \* the chain's issuance as fetched, or NoneVal
    block_header,            \* number of the fetched header, or NoneVal
    writes                   \* writes made to the snapshot file

vars == << cli_block_number, cli_block_hash, valid_ss58, overflow_checks,
           best_number, fs, pc, error, net, block_hash, token_grants, iter_at,
           streamed, exhausted, new_accounts, total_issuance,
           expected_total_issuance, block_header, writes >>

\* ------------------------------------------------------------------- node
HashOf(n) == 100 + n

\* A hash given on the command line that the node knows no block for.
UnknownHash == HashOf(MaxHeight + 50)

KnownHash(h) == \E n \in 1..best_number : h = HashOf(n)

\* rpc().block_hash(Some(n)): the canonical hash, or None.
NodeBlockHash(n) == IF n \in 1..best_number THEN HashOf(n) ELSE NoneVal

NodeHeaderNumber(h) == h - 100

NoFile == [exists |-> FALSE, bytes |-> << >>]

OldFile == [exists |-> TRUE, bytes |-> << "o", "l", "d" >>]

\* ------------------------------------------------------------ pure helpers
\* u128 `+`: the value a wrapping build produces.
WrappingAdd(a, b) == (a + b) % Modulus

Overflows(a, b) == a + b >= Modulus

\* line 130: account.data.free + account.data.reserved
Total(free, reserved) == WrappingAdd(free, reserved)

\* line 132: total_issuance += total
Accumulate(acc, total) == WrappingAdd(acc, total)

\* line 94: the endowed accounts (sudo, //Alice, //Bob).
endowed == << from_ss58check(SUDO_ADDRESS), from_ss58check("5Alice"), from_ss58check("5Bob") >>

\* line 134: token_grants.contains(..) || endowed.contains(..)
IsExcludedGrantsOnly(account_id, grants) == account_id \in Range(grants)

IsExcluded(account_id, grants) ==
    account_id \in Range(grants) \/ account_id \in Range(endowed)

\* line 139: assert_eq!(total, account.data.free)
ReservedUnchecked(total, free) == TRUE

ReservedOk(total, free) == total = free

\* line 140: new_accounts.push((account_id, total))
Push(accounts, account_id, total) == Append(accounts, << account_id, total >>)

\* line 150: assert_eq!(total_issuance, expected_total_issuance)
IssuanceUnchecked(acc, expected) == TRUE

IssuanceOk(acc, expected) == acc = expected

\* lines 107-110: filter_map(|address| from_ss58check(address).ok())
DecodeGrantList(valid) ==
    LET kept == SelectSeq(TOKEN_GRANTS, LAMBDA a : a \in valid)
    IN  [i \in 1..Len(kept) |-> from_ss58check(kept[i])]

\* line 112: assert_eq!(token_grants.len(), TOKEN_GRANTS.len())
GrantsUnchecked(decoded) == TRUE

GrantsNonEmpty(decoded) == Len(decoded) > 0

GrantsComplete(decoded) == Len(decoded) = Len(TOKEN_GRANTS)

\* line 70: if let Some(block_number) = cli.block_number
NumberGivenAndNoHash == cli_block_number # NoneVal /\ cli_block_hash = NoneVal

NumberGiven == cli_block_number # NoneVal

\* lines 119, 147, 155: the hash each state read is made at.
AccountIterAt == block_hash

TotalIssuanceAtLatest == HashOf(best_number)

TotalIssuanceAt == block_hash

HeaderAt == block_hash

\* lines 125-128: hex-encode the key, cut the prefix and the hash, parse the
\* rest as an AccountId.  NoneVal when the slice panics or the parse fails.
DecodeKey(key) ==
    LET hexlen == 2 * key.len
    IN  IF hexlen < STORAGE_PREFIX_LEN + BLAKE_HASH_LEN THEN NoneVal
        ELSE IF hexlen - (STORAGE_PREFIX_LEN + BLAKE_HASH_LEN) = ACCOUNT_HEX_LEN
             THEN key.id
             ELSE NoneVal

\* line 181: serde_json::to_writer_pretty(&file, &new_accounts), as tokens.
RECURSIVE SerializeEntries(_)
SerializeEntries(accounts) ==
    IF accounts = << >> THEN << >>
    ELSE << "[", to_ss58check(Head(accounts)[1]), ToString(Head(accounts)[2]), "]" >>
         \o SerializeEntries(Tail(accounts))

Serialize(accounts) == << "[" >> \o SerializeEntries(accounts) \o << "]" >>

\* lines 176-181: OpenOptions create(true).write(true), then write from offset 0.
WriteOver(old, data) == data \o SubSeq(old, Len(data) + 1, Len(old))

\* ------------------------------------------------------------------- state
inputs == << cli_block_number, cli_block_hash, valid_ss58, overflow_checks >>

engine == << token_grants, iter_at, streamed, exhausted, new_accounts, total_issuance,
             expected_total_issuance >>

output == << fs, block_header, writes >>

CliNumbers == {NoneVal} \cup (1..MaxHeight)

CliHashes == {NoneVal, HashOf(1), UnknownHash}

Balances == {0, 1, MaxBalance}

Reserves == {0, 1}

StreamEntries ==
    [key : [len : KeyLens, id : StreamIds], free : Balances, reserved : Reserves]

Init ==
    /\ cli_block_number \in CliNumbers
    /\ cli_block_hash \in CliHashes
    /\ valid_ss58 \in SUBSET Range(TOKEN_GRANTS)
    /\ overflow_checks \in BOOLEAN
    /\ best_number = 1
    /\ \E old \in {NoFile, OldFile} : fs = [n \in 1..MaxHeight |-> old]
    /\ pc = "Connect"
    /\ error = "None"
    /\ net = << >>
    /\ block_hash = NoneVal
    /\ token_grants = << >>
    /\ iter_at = NoneVal
    /\ streamed = << >>
    /\ exhausted = FALSE
    /\ new_accounts = << >>
    /\ total_issuance = 0
    /\ expected_total_issuance = NoneVal
    /\ block_header = NoneVal
    /\ writes = 0

Request(op, arg) == net' = Append(net, [op |-> op, arg |-> arg])

\* `?` on an Err and every panic: the process ends, nothing after it runs.
AbortAndContinue(kind) == pc' = pc /\ error' = kind

Abort(kind) == pc' = "Failed" /\ error' = kind

Goto(next) == pc' = next /\ error' = error

\* lines 64-68: ClientBuilder ... build().await?
Connect ==
    /\ pc = "Connect"
    /\ Request("connect", NoneVal)
    /\ \/ Goto("Resolve")
       \/ Abort("Transport")
    /\ UNCHANGED << inputs, best_number, block_hash, engine, output >>

\* lines 70-79, 84-85: --block-number given: ask the node for its hash.
ResolveByNumber ==
    /\ pc = "Resolve"
    /\ NumberGiven
    /\ Request("block_hash", cli_block_number)
    /\ \/ Abort("Transport") /\ block_hash' = block_hash
       \/ IF NodeBlockHash(cli_block_number) = NoneVal
          THEN Abort("BlockNotFound") /\ block_hash' = block_hash
          ELSE Goto("DecodeGrants") /\ block_hash' = NodeBlockHash(cli_block_number)
    /\ UNCHANGED << inputs, best_number, engine, output >>

\* lines 80-85: no number, --block-hash given: use it, no request.
UseGivenHash ==
    /\ pc = "Resolve"
    /\ ~NumberGiven
    /\ cli_block_hash # NoneVal
    /\ block_hash' = cli_block_hash
    /\ Goto("DecodeGrants")
    /\ UNCHANGED << inputs, best_number, net, engine, output >>

\* lines 80-82, 86-91: neither given: the node's best hash.
ResolveLatest ==
    /\ pc = "Resolve"
    /\ ~NumberGiven
    /\ cli_block_hash = NoneVal
    /\ Request("block_hash", NoneVal)
    /\ \/ Abort("Transport") /\ block_hash' = block_hash
       \/ Abort("BestBlockNotFound") /\ block_hash' = block_hash
       \/ Goto("DecodeGrants") /\ block_hash' = HashOf(best_number)
    /\ UNCHANGED << inputs, best_number, engine, output >>

\* lines 94-112: build the endowed list, decode the grants, assert none dropped.
DecodeGrants ==
    /\ pc = "DecodeGrants"
    /\ token_grants' = DecodeGrantList(valid_ss58)
    /\ IF GrantsComplete(token_grants')
       THEN Goto("OpenStream")
       ELSE Abort("GrantListDecodeFailure")
    /\ UNCHANGED << inputs, best_number, net, block_hash, iter_at, streamed, exhausted,
                    new_accounts, total_issuance, expected_total_issuance, output >>

\* lines 114-122: open the account iterator at block_hash, zero the accumulator.
OpenStream ==
    /\ pc = "OpenStream"
    /\ Request("account_iter", AccountIterAt)
    /\ \/ /\ Abort("Transport")
          /\ UNCHANGED << iter_at, new_accounts, total_issuance >>
       \/ /\ Goto("Streaming")
          /\ iter_at' = AccountIterAt
          /\ new_accounts' = << >>
          /\ total_issuance' = 0
    /\ UNCHANGED << inputs, best_number, block_hash, token_grants, streamed, exhausted,
                    expected_total_issuance, output >>

StreamedIds == {streamed[i].key.id : i \in 1..Len(streamed)}

\* lines 125-141: the loop body for one entry the iterator yielded.
Classify(entry) ==
    LET account_id == DecodeKey(entry.key)
        total == Total(entry.free, entry.reserved)
    IN  IF account_id = NoneVal
        THEN Abort("MalformedAccountKey") /\ UNCHANGED << total_issuance, new_accounts >>
        ELSE IF overflow_checks /\ Overflows(entry.free, entry.reserved)
        THEN Abort("ArithmeticOverflow") /\ UNCHANGED << total_issuance, new_accounts >>
        ELSE IF overflow_checks /\ Overflows(total_issuance, total)
        THEN Abort("ArithmeticOverflow") /\ UNCHANGED << total_issuance, new_accounts >>
        ELSE /\ total_issuance' = Accumulate(total_issuance, total)
             /\ IF IsExcluded(account_id, token_grants)
                THEN Goto("Streaming") /\ new_accounts' = new_accounts
                ELSE IF ~ReservedOk(total, entry.free)
                THEN Abort("UnexpectedReservedBalance") /\ new_accounts' = new_accounts
                ELSE Goto("Streaming") /\ new_accounts' = Push(new_accounts, account_id, total)

\* line 124 and the loop body: one iter.next().await? and what follows it.
StreamNext ==
    /\ pc = "Streaming"
    /\ Request("iter_next", iter_at)
    /\ \/ /\ Abort("Transport")
          /\ UNCHANGED << streamed, exhausted, new_accounts, total_issuance >>
       \/ /\ KnownHash(iter_at)
          /\ Goto("Reconciling")
          /\ exhausted' = TRUE
          /\ UNCHANGED << streamed, new_accounts, total_issuance >>
       \/ /\ KnownHash(iter_at)
          /\ Len(streamed) < MaxStream
          /\ \E entry \in StreamEntries :
                /\ entry.key.id \notin StreamedIds
                /\ streamed' = Append(streamed, entry)
                /\ Classify(entry)
          /\ exhausted' = exhausted
    /\ UNCHANGED << inputs, best_number, block_hash, token_grants, iter_at,
                    expected_total_issuance, output >>

\* lines 144-150: read the chain's issuance and compare.
FetchIssuance ==
    /\ pc = "Reconciling"
    /\ Request("total_issuance", TotalIssuanceAt)
    /\ \/ Abort("Transport") /\ expected_total_issuance' = expected_total_issuance
       \/ /\ KnownHash(TotalIssuanceAt)
          /\ \E issuance \in 0..MaxBalance :
                /\ expected_total_issuance' = issuance
                /\ IF IssuanceOk(total_issuance, issuance)
                   THEN Goto("Verified")
                   ELSE Abort("IssuanceMismatch")
    /\ UNCHANGED << inputs, best_number, block_hash, token_grants, iter_at, streamed,
                    exhausted, new_accounts, total_issuance, output >>

\* lines 152-171: fetch the header of block_hash (the summary lines are not state).
FetchHeader ==
    /\ pc = "Verified"
    /\ Request("header", HeaderAt)
    /\ \/ Abort("Transport") /\ block_header' = block_header
       \/ Abort("HeaderNotFound") /\ block_header' = block_header
       \/ /\ KnownHash(HeaderAt)
          /\ Goto("Emit")
          /\ block_header' = NodeHeaderNumber(HeaderAt)
    /\ UNCHANGED << inputs, best_number, block_hash, engine, fs, writes >>

Written(old, data) == [exists |-> TRUE, bytes |-> WriteOver(old.bytes, data)]

\* lines 173-188: open balances_<number>.json and serialise new_accounts into it.
Emit ==
    /\ pc = "Emit"
    /\ LET data == Serialize(new_accounts)
           old == fs[block_header]
       IN  \/ Abort("Io") /\ UNCHANGED << fs, writes >>
           \/ /\ Goto("Done")
              /\ fs' = [fs EXCEPT ![block_header] = Written(old, data)]
              /\ writes' = writes + 1
           \/ \E k \in 0..(Len(data) - 1) :
                 /\ Abort("Io")
                 /\ fs' = [fs EXCEPT ![block_header] = Written(old, SubSeq(data, 1, k))]
                 /\ writes' = writes + 1
    /\ UNCHANGED << inputs, best_number, net, block_hash, engine, block_header >>

\* The chain grows while the run is in progress.
ChainAdvance ==
    /\ pc \notin {"Done", "Failed"}
    /\ best_number < MaxHeight
    /\ best_number' = best_number + 1
    /\ UNCHANGED << inputs, fs, pc, error, net, block_hash, engine, block_header, writes >>

Next ==
    \/ Connect
    \/ ResolveByNumber
    \/ UseGivenHash
    \/ ResolveLatest
    \/ DecodeGrants
    \/ OpenStream
    \/ StreamNext
    \/ FetchIssuance
    \/ FetchHeader
    \/ Emit
    \/ ChainAdvance

Spec == Init /\ [][Next]_vars

\* ================================================================== claims
StateReads == {"account_iter", "iter_next", "total_issuance", "header"}

Requests(op) == {i \in 1..Len(net) : net[i].op = op}

\* The exclusion set as the program text fixes it: sudo, Alice, Bob and every
\* address of the hardcoded grant list.
ExclusionSet ==
    {from_ss58check(SUDO_ADDRESS), from_ss58check("5Alice"), from_ss58check("5Bob")}
        \cup {from_ss58check(TOKEN_GRANTS[i]) : i \in 1..Len(TOKEN_GRANTS)}

WellFormed(entry) == DecodeKey(entry.key) # NoneVal

IsNew(entry) == WellFormed(entry) /\ DecodeKey(entry.key) \notin ExclusionSet

IsExcludedEntry(entry) == WellFormed(entry) /\ DecodeKey(entry.key) \in ExclusionSet

BadGrant == \E i \in 1..Len(TOKEN_GRANTS) : TOKEN_GRANTS[i] \notin valid_ss58

Untouched == \A n \in DOMAIN fs : fs[n] \in {NoFile, OldFile}

PastVerification == pc \in {"Verified", "Emit", "Done"} \/ writes > 0

\* The mathematical sum of free + reserved over a stream (no reduction).
RECURSIVE ExactSum(_)
ExactSum(entries) ==
    IF entries = << >> THEN 0
    ELSE Head(entries).free + Head(entries).reserved + ExactSum(Tail(entries))

\* C1 -- Issuance conservation: the snapshot file is written only when the
\* stream was consumed to its end and the accumulator, the u128 sum of
\* free + reserved over every streamed account (excluded and new alike),
\* equals the issuance fetched from the chain; when the two differ the run
\* has aborted with the file untouched.
C1_IssuanceConservation ==
    /\ PastVerification =>
          /\ exhausted
          /\ expected_total_issuance # NoneVal
          /\ total_issuance = expected_total_issuance
          /\ total_issuance = ExactSum(streamed) % Modulus
    /\ (expected_total_issuance # NoneVal /\ expected_total_issuance # total_issuance) =>
          /\ pc = "Failed"
          /\ error = "IssuanceMismatch"
          /\ writes = 0
          /\ Untouched

C1_Witness ==
    /\ pc = "Done"
    /\ writes = 1
    /\ Len(streamed) = 2
    /\ IsExcludedEntry(streamed[1])
    /\ IsNew(streamed[2])
    /\ streamed[1].reserved = 1
    /\ total_issuance = 2

\* C2 (as stated) -- every new_accounts balance is the free balance of its
\* source record; a streamed non-excluded account with reserved # 0 aborts the
\* run with UnexpectedReservedBalance; an excluded account with reserved # 0
\* never causes an abort.
C2_Original ==
    /\ \A i \in 1..Len(new_accounts) :
          \E j \in 1..Len(streamed) :
             /\ DecodeKey(streamed[j].key) = new_accounts[i][1]
             /\ new_accounts[i][2] = streamed[j].free
    /\ \A j \in 1..Len(streamed) :
          (IsNew(streamed[j]) /\ streamed[j].reserved # 0) =>
             pc = "Failed" /\ error = "UnexpectedReservedBalance"
    /\ (streamed # << >> /\ IsExcludedEntry(streamed[Len(streamed)])
           /\ streamed[Len(streamed)].reserved # 0) =>
          error \notin {"UnexpectedReservedBalance", "ArithmeticOverflow"}

\* C2 (amended) -- every new_accounts balance is the free balance of its
\* source record; a streamed non-excluded account with reserved # 0 is the
\* last one streamed and the run has aborted before emission, with
\* UnexpectedReservedBalance unless a sum overflowed in a build that checks
\* overflow; UnexpectedReservedBalance is never raised for an excluded
\* account, which can stop the run only through such an overflow.
C2_ReservedBalance ==
    /\ \A i \in 1..Len(new_accounts) :
          \E j \in 1..Len(streamed) :
             /\ DecodeKey(streamed[j].key) = new_accounts[i][1]
             /\ new_accounts[i][2] = streamed[j].free
    /\ \A j \in 1..Len(streamed) :
          (IsNew(streamed[j]) /\ streamed[j].reserved # 0) =>
             /\ j = Len(streamed)
             /\ pc = "Failed"
             /\ writes = 0
             /\ Untouched
             /\ error \in {"UnexpectedReservedBalance", "ArithmeticOverflow"}
    /\ error = "ArithmeticOverflow" =>
          overflow_checks /\ ExactSum(streamed) >= Modulus
    /\ error = "UnexpectedReservedBalance" =>
          /\ streamed # << >>
          /\ IsNew(streamed[Len(streamed)])
          /\ streamed[Len(streamed)].reserved # 0

C2_Witness ==
    /\ pc = "Failed"
    /\ error = "UnexpectedReservedBalance"
    /\ Len(streamed) = 2
    /\ IsExcludedEntry(streamed[1])
    /\ streamed[1].reserved = 1
    /\ streamed[2].free = 1
    /\ streamed[2].reserved = 1

\* The non-excluded accounts of a stream, in stream order, with free + reserved.
RECURSIVE NewSubsequence(_)
NewSubsequence(entries) ==
    IF entries = << >> THEN << >>
    ELSE IF DecodeKey(Head(entries).key) \in ExclusionSet
         THEN NewSubsequence(Tail(entries))
         ELSE << << DecodeKey(Head(entries).key), Head(entries).free + Head(entries).reserved >> >>
              \o NewSubsequence(Tail(entries))

\* C3 -- Partition and order: no excluded account is ever in new_accounts,
\* and while the loop runs and once the stream is exhausted new_accounts is
\* exactly the subsequence of non-excluded streamed accounts, each once, in
\* stream order, paired with free + reserved.
C3_PartitionAndOrder ==
    /\ \A i \in 1..Len(new_accounts) : new_accounts[i][1] \notin ExclusionSet
    /\ (exhausted \/ pc = "Streaming") => new_accounts = NewSubsequence(streamed)
    /\ \A i, j \in 1..Len(new_accounts) :
          new_accounts[i][1] = new_accounts[j][1] => i = j

C3_Witness ==
    /\ exhausted
    /\ Len(streamed) = 2
    /\ IsExcludedEntry(streamed[1])
    /\ streamed[1].free = 1
    /\ streamed[1].reserved = 1
    /\ IsNew(streamed[2])
    /\ new_accounts = << << DecodeKey(streamed[2].key), 1 >> >>

\* The hash the precedence rule selects in the current state of the node.
PrecedenceHash ==
    IF cli_block_number # NoneVal THEN NodeBlockHash(cli_block_number)
    ELSE IF cli_block_hash # NoneVal THEN cli_block_hash
    ELSE HashOf(best_number)

\* C4 -- Block resolution precedence: whenever the run resolves its hash the
\* result is the node's canonical hash for --block-number if a number is
\* given (with or without --block-hash), else the given --block-hash, else
\* the node's best hash at that moment; when the node has no hash for the
\* number the run fails with BlockNotFound, no hash is resolved and the
\* number lookup stays the only block-hash request made.
C4_ResolutionPrecedence ==
    /\ [][block_hash' # block_hash =>
             block_hash' # NoneVal /\ block_hash' = PrecedenceHash]_vars
    /\ [][(pc = "Resolve" /\ pc' # pc /\ cli_block_number # NoneVal
              /\ NodeBlockHash(cli_block_number) = NoneVal) =>
             (pc' = "Failed" /\ error' \in {"BlockNotFound", "Transport"}
                 /\ block_hash' = NoneVal)]_vars
    /\ [](error = "BlockNotFound" =>
             /\ pc = "Failed"
             /\ cli_block_number # NoneVal
             /\ block_hash = NoneVal
             /\ Requests("block_hash") = {Len(net)}
             /\ net[Len(net)].arg = cli_block_number)

C4_Witness ==
    /\ cli_block_number # NoneVal
    /\ cli_block_hash # NoneVal
    /\ block_hash = HashOf(cli_block_number)
    /\ block_hash # cli_block_hash
    /\ pc = "Done"

\* C5 (as stated) -- after a successful run the file balances_<number>
\* holds exactly the serialisation of the verified snapshot, whatever it held
\* before.
C5_FileIsSnapshot ==
    pc = "Done" =>
        fs[block_header] = [exists |-> TRUE, bytes |-> Serialize(new_accounts)]

\* C6 (as stated) -- when a grant address fails to decode the run aborts
\* before any network I/O: no connection, no node request.
C6_Original == error = "GrantListDecodeFailure" => net = << >>

\* C6 (amended) -- in a run where some grant address does not decode the run
\* never gets past the decoding step: it aborts there, after the connection
\* and at most one block-hash lookup, and no read of chain state (account
\* stream, issuance, header) is issued and no file is written.
C6_GrantAbortBeforeStateReads ==
    /\ BadGrant =>
          /\ pc \in {"Connect", "Resolve", "DecodeGrants", "Failed"}
          /\ \A i \in 1..Len(net) : net[i].op \notin StateReads
          /\ streamed = << >>
          /\ writes = 0
          /\ Untouched
    /\ error = "GrantListDecodeFailure" =>
          /\ BadGrant
          /\ pc = "Failed"
          /\ net # << >>
          /\ net[1].op = "connect"
          /\ Len(net) <= 2

C6_Witness ==
    /\ error = "GrantListDecodeFailure"
    /\ Len(net) = 2
    /\ net[2].op = "block_hash"
    /\ Len(token_grants) = 1

StreamOpened == Requests("account_iter") # {} \/ iter_at # NoneVal \/ streamed # << >>

\* C7 -- Exclusion completeness: from the opening of the account stream
\* onward the decoded grant list has the length of the hardcoded list and
\* holds the id of each of its addresses; with an address that does not
\* decode the run aborts and no account is ever streamed or classified.
C7_ExclusionCompleteness ==
    /\ (StreamOpened \/ pc \in {"OpenStream", "Streaming", "Reconciling", "Verified", "Emit", "Done"}) =>
          /\ Len(token_grants) = Len(TOKEN_GRANTS)
          /\ \A i \in 1..Len(TOKEN_GRANTS) : token_grants[i] = from_ss58check(TOKEN_GRANTS[i])
    /\ BadGrant =>
          /\ ~StreamOpened
          /\ new_accounts = << >>
          /\ pc \in {"Connect", "Resolve", "DecodeGrants", "Failed"}

C7_Witness ==
    /\ pc = "Streaming"
    /\ Len(streamed) = 1
    /\ DecodeKey(streamed[1].key) = from_ss58check(TOKEN_GRANTS[1])
    /\ new_accounts = << >>
    /\ Len(token_grants) = Len(TOKEN_GRANTS)

\* C8 -- Pinned BlockRef: at most one block-hash lookup is made, and every
\* read of chain state (opening the account stream, each page of it, the
\* issuance read, the header lookup) is made at the resolved hash, also when
\* the hash was resolved as 'latest' and the chain has advanced since.
C8_PinnedBlockRef ==
    /\ Cardinality(Requests("block_hash")) <= 1
    /\ \A i \in 1..Len(net) :
          net[i].op \in StateReads => (block_hash # NoneVal /\ net[i].arg = block_hash)
    /\ iter_at \in {NoneVal, block_hash}

C8_Witness ==
    /\ pc = "Done"
    /\ cli_block_number = NoneVal
    /\ cli_block_hash = NoneVal
    /\ HashOf(best_number) # block_hash
    /\ Requests("total_issuance") # {}
    /\ Requests("header") # {}

Rank(p) ==
    CASE p = "Connect"      -> 0
      [] p = "Resolve"      -> 1
      [] p = "DecodeGrants" -> 2
      [] p = "OpenStream"   -> 3
      [] p = "Streaming"    -> 4
      [] p = "Reconciling"  -> 5
      [] p = "Verified"     -> 6
      [] p = "Emit"         -> 7
      [] p = "Done"         -> 8
      [] p = "Failed"       -> 9

\* C9 -- Fail-fast linear run: the position of the run only moves forward and
\* no request other than the stream's next page is ever issued twice; the
\* issuance is read only after the stream is exhausted; a fatal condition
\* puts the run in Failed at once, Failed is terminal, and after it no node
\* request and no file write happens; the file is written at most once, from
\* the emission step of a verified run.
C9_FailFastLinear ==
    /\ [][Rank(pc') >= Rank(pc)]_vars
    /\ [][(pc = "Failed" \/ error # "None") =>
             (pc' = pc /\ error' = error /\ net' = net /\ fs' = fs /\ writes' = writes)]_vars
    /\ [][(fs' # fs \/ writes' # writes) =>
             (pc = "Emit" /\ writes = 0 /\ writes' = 1
                 /\ total_issuance = expected_total_issuance
                 /\ \A n \in DOMAIN fs : n # block_header => fs'[n] = fs[n])]_vars
    /\ [](error # "None" <=> pc = "Failed")
    /\ [](writes <= 1)
    /\ [](\A op \in {"connect", "block_hash", "account_iter", "total_issuance", "header"} :
             Cardinality(Requests(op)) <= 1)
    /\ [](\A i \in Requests("total_issuance") :
             exhausted /\ \A j \in Requests("iter_next") : j < i)
    /\ [](Cardinality(Requests("iter_next")) <= Len(streamed) + 1)

C9_Witness ==
    /\ pc = "Failed"
    /\ error = "IssuanceMismatch"
    /\ Len(streamed) = 2
    /\ writes = 0
    /\ Requests("header") = {}

\* C10 (as stated) -- No wrapped sums: a run that passed the issuance check
\* did so on the exact sum of free + reserved over all streamed accounts, and
\* every recorded new-account balance is the exact free + reserved.
C10_NoWrappedSum ==
    /\ PastVerification => total_issuance = ExactSum(streamed)
    /\ (exhausted \/ pc = "Streaming") => new_accounts = NewSubsequence(streamed)

====
